---- MODULE Spec2Model ----
(***************************************************************************)
(* MedAssist-MAS (src/app.py): the red-flag safety gate, the group-chat    *)
(* orchestration of one consultation and the recovery of the structured    *)
(* output, as a state machine.                                             *)
(*                                                                         *)
(* Texts are sequences of tokens.  In the safety gate a token is a word or *)
(* a run of whitespace (WS); in the output recovery a token is a brace, a  *)
(* piece of prose or one JSON member.                                      *)
(***************************************************************************)
EXTENDS Integers, Sequences, FiniteSets, TLC

VARIABLES
    gIn, gOut,    \* detect_red_flags applied to one input: arguments, result
    pIn, pOut,    \* parse_consultation_output applied to one text: argument, result
    inp,          \* per request: the arguments of run_consultation
    pc,           \* per request: idle, chat, extract, done, failed
    rf,           \* per request: the result of the safety gate
    mgr,          \* per request: the manager (and its group chat) it built, 0 for none
    chats,        \* per group chat object: groupchat.messages
    nextId,       \* the identity of the next object constructed
    calls,        \* per request: completion-service calls made
    out,          \* per request: the tuple run_consultation returned
    said,         \* per request: the turns its own consultation produced (history)
    handed        \* per request: the text handed to parse_consultation_output (history)

pureVars == <<gIn, gOut, pIn, pOut>>

reqVars == <<inp, pc, rf, mgr, chats, nextId, calls, out, said, handed>>

vars == <<gIn, gOut, pIn, pOut, inp, pc, rf, mgr, chats, nextId, calls, out, said, handed>>

(***************************************************************************)
(* Bounds of the model                                                     *)
(***************************************************************************)
MaxSymLen == 2
MaxTextLen == 5
NumReq == 2

(***************************************************************************)
(* Generic helpers                                                         *)
(***************************************************************************)
SeqsUpTo(S, n) == UNION {[1..k -> S] : k \in 0..n}

Range(s) == {s[i] : i \in 1..Len(s)}

\* Python's None, for an argument that is a text otherwise
NoneVal == <<"<None>">>

\* `x or ""`
OrEmpty(s) == IF s = NoneVal THEN <<>> ELSE s

(***************************************************************************)
(* detect_red_flags                                                        *)
(***************************************************************************)
WS == "_"

\* the words the inputs are drawn from
Vocabulary == {"chest", "Pain", "fever", "feverish", "rash", "breathing", "hives"}

\* str.lower() on one token
Lower(w) == IF w = "Pain" THEN "pain" ELSE w

\* `sub in word` for the words of the vocabulary
WordContains(w, sub) ==
    \/ w = sub
    \/ w = "feverish" /\ sub = "fever"

\* text = f"{symptoms or ''} {extra or ''}".lower(); re.sub(r"\s+", " ", text).strip()
\* : the words of the text, lower-cased, in order
NormalizeText(symptoms, extra) ==
    LET joined == OrEmpty(symptoms) \o <<WS>> \o OrEmpty(extra)
        words == SelectSeq(joined, LAMBDA t : t # WS)
    IN  [i \in 1..Len(words) |-> Lower(words[i])]

\* `sub in text` for a sub without whitespace
TextContains(text, sub) == \E i \in 1..Len(text) : WordContains(text[i], sub)

\* The table of patterns.  A pattern is a set of alternatives (the expansion
\* of its optional groups); an alternative is a sequence of segments that
\* `.*` separates; a segment is a sequence of whole words (\b ... \b).
Phrase(seg) == {<<seg>>}

Gap(seg1, seg2) == {<<seg1, seg2>>}

red_flags == <<
    [label |-> "Chest pain / pressure", patterns |->
        Phrase(<<"chest", "pain">>) \cup Phrase(<<"chest", "pressure">>)
        \cup Phrase(<<"tightness", "in", "chest">>)
        \cup Phrase(<<"pain", "in", "arm">>) \cup Phrase(<<"pain", "in", "left", "arm">>)
        \cup Phrase(<<"pain", "radiating">>) \cup Phrase(<<"pain", "radiates">>)],
    [label |-> "Trouble breathing", patterns |->
        Phrase(<<"short", "of", "breath">>) \cup Phrase(<<"shortness", "of", "breath">>)
        \cup Phrase(<<"difficulty", "breathing">>) \cup Phrase(<<"can't", "breathe">>)
        \cup Phrase(<<"wheezing">>)
        \cup Phrase(<<"turn", "blue">>) \cup Phrase(<<"turning", "blue">>)
        \cup Phrase(<<"bluish">>)],
    [label |-> "Stroke-like symptoms", patterns |->
        Phrase(<<"face", "droop">>) \cup Gap(<<"one", "side">>, <<"weak">>)
        \cup Phrase(<<"sudden", "weakness">>)
        \cup Phrase(<<"sudden", "numb">>) \cup Phrase(<<"sudden", "numbness">>)
        \cup Phrase(<<"slurred", "speech">>) \cup Phrase(<<"trouble", "speaking">>)
        \cup Phrase(<<"vision", "loss">>) \cup Phrase(<<"sudden", "severe", "headache">>)],
    [label |-> "Fainting / severe confusion", patterns |->
        Phrase(<<"faint">>) \cup Phrase(<<"fainted">>) \cup Phrase(<<"fainting">>)
        \cup Phrase(<<"passed", "out">>) \cup Phrase(<<"unconscious">>)
        \cup Phrase(<<"confused">>) \cup Phrase(<<"confusion">>)
        \cup Phrase(<<"not", "responding">>) \cup Phrase(<<"seizure">>)],
    [label |-> "Severe bleeding / black stool / vomiting blood", patterns |->
        Phrase(<<"heavy", "bleeding">>) \cup Phrase(<<"won't", "stop", "bleeding">>)
        \cup Phrase(<<"vomit", "blood">>) \cup Phrase(<<"vomiting", "blood">>)
        \cup Phrase(<<"blood", "in", "vomit">>)
        \cup Phrase(<<"black", "stool">>) \cup Phrase(<<"tarry", "stool">>)
        \cup Phrase(<<"blood", "in", "stool">>)],
    [label |-> "Severe allergic reaction", patterns |->
        Phrase(<<"swelling", "of", "lips">>) \cup Phrase(<<"swelling", "of", "tongue">>)
        \cup Phrase(<<"swelling", "of", "throat">>) \cup Phrase(<<"throat", "swelling">>)
        \cup Phrase(<<"hives">>) \cup Phrase(<<"anaphylaxis">>)],
    [label |-> "High fever with concerning signs", patterns |->
        Gap(<<"fever">>, <<"neck", "stiffness">>) \cup Gap(<<"fever">>, <<"rash">>)],
    [label |-> "Suicidal ideation / self-harm", patterns |->
        Phrase(<<"want", "to", "die">>)
        \cup Phrase(<<"suicidal">>) \cup Phrase(<<"suicidideation">>)
        \cup Phrase(<<"self", "harm">>)]
>>

\* the segment's words stand in the text from word i on
SegmentAt(text, seg, i) ==
    /\ i + Len(seg) - 1 <= Len(text)
    /\ \A k \in 1..Len(seg) : text[i + k - 1] = seg[k]

\* re.search of one alternative: its segments from the k-th on occur in
\* order, the k-th not before word `from`
RECURSIVE SearchFrom(_, _, _, _)
SearchFrom(text, alt, k, from) ==
    IF k > Len(alt) THEN TRUE
    ELSE \E i \in from..Len(text) :
            /\ SegmentAt(text, alt[k], i)
            /\ SearchFrom(text, alt, k + 1, i + Len(alt[k]))

\* the inner loop: some pattern of the category matches
CategoryHit(text, category) ==
    \E alt \in category.patterns : SearchFrom(text, alt, 1, 1)

\* hits: the labels of the categories that matched, in table order
Hits(text) ==
    LET matched == SelectSeq(red_flags, LAMBDA c : CategoryHit(text, c))
    IN  [i \in 1..Len(matched) |-> matched[i].label]

\* the order of the labels as Python strings
LabelRank(label) ==
    CASE label = "Chest pain / pressure" -> 1
      [] label = "Fainting / severe confusion" -> 2
      [] label = "High fever with concerning signs" -> 3
      [] label = "Severe allergic reaction" -> 4
      [] label = "Severe bleeding / black stool / vomiting blood" -> 5
      [] label = "Stroke-like symptoms" -> 6
      [] label = "Suicidal ideation / self-harm" -> 7
      [] label = "Trouble breathing" -> 8

\* sorted(set(hits))
SortedSet(hits) ==
    LET S == Range(hits)
    IN  CHOOSE s \in [1..Cardinality(S) -> S] :
            /\ Range(s) = S
            /\ \A i, j \in 1..Len(s) : i < j => LabelRank(s[i]) < LabelRank(s[j])

\* the characters an age is written with
Digits == {"0", "1", "2", "3", "4", "5", "6", "7", "8", "9"}

DigitValue(c) ==
    CASE c = "0" -> 0 [] c = "1" -> 1 [] c = "2" -> 2 [] c = "3" -> 3 [] c = "4" -> 4
      [] c = "5" -> 5 [] c = "6" -> 6 [] c = "7" -> 7 [] c = "8" -> 8 [] c = "9" -> 9

\* int() of a string of digits
RECURSIVE IntOfDigits(_)
IntOfDigits(ds) ==
    IF ds = <<>> THEN 0
    ELSE 10 * IntOfDigits(SubSeq(ds, 1, Len(ds) - 1)) + DigitValue(ds[Len(ds)])

\* "no age signal"
NoAge == -1

\* age_num = int(re.sub(r"\D", "", age)) if age else None; None on ValueError
age_num(age) ==
    LET digits == SelectSeq(OrEmpty(age), LAMBDA c : c \in Digits)
    IN  IF OrEmpty(age) = <<>> THEN NoAge
        ELSE IF digits = <<>> THEN NoAge
        ELSE IntOfDigits(digits)

\* the lower age limit taken inclusively
high_risk_age_inclusive(age) ==
    LET n == age_num(age) IN n # NoAge /\ (n <= 2 \/ n >= 65)

high_risk_age(age) ==
    LET n == age_num(age) IN n # NoAge /\ (n < 2 \/ n >= 65)

\* the age escalation tested before the hits
Level_age_first(hits, text, age) ==
    IF high_risk_age(age) /\ (TextContains(text, "fever") \/ TextContains(text, "breathing"))
    THEN "medium"
    ELSE IF hits # <<>> THEN "high"
    ELSE "none"

\* level = "none"; if hits: "high"; elif high_risk_age and (...): "medium"
Level(hits, text, age) ==
    IF hits # <<>> THEN "high"
    ELSE IF high_risk_age(age) /\ (TextContains(text, "fever") \/ TextContains(text, "breathing"))
         THEN "medium"
    ELSE "none"

detect_red_flags(symptoms, age, extra) ==
    LET text == NormalizeText(symptoms, extra)
        hits == Hits(text)
    IN  [level |-> Level(hits, text, age),
         flags |-> SortedSet(hits),
         high_risk_age |-> high_risk_age(age)]

(***************************************************************************)
(* extract_json, parse_consultation_output, ConsultationOutput             *)
(*                                                                         *)
(* A consultation text is a sequence of tokens: the braces, prose (any     *)
(* text without a brace) and JSON members `"key": value`; members that     *)
(* follow each other are separated by commas in the text.                  *)
(***************************************************************************)
LB == "{"
RB == "}"

\* `"urgency_level": "low"`, `"urgency_level": "extreme"`, `"summary": "rest"`,
\* `"summary": ""`, `"self_care": ["a"]`, `"self_care": [1]`
MemberTokens == {"u=low", "u=extreme", "s=rest", "s=", "l=[a]", "l=[1]"}

\* a member whose value is nested deeper than the decoder's recursion limit
DeepMember == "deep"

ProseTokens == {"prose"}

KeyOf(tok) ==
    CASE tok \in {"u=low", "u=extreme"} -> "urgency_level"
      [] tok \in {"s=rest", "s="} -> "summary"
      [] tok \in {"l=[a]", "l=[1]"} -> "self_care"

\* the decoded value of a member, and whether it is a list of str
ValueOf(tok) ==
    CASE tok = "u=low" -> "low"
      [] tok = "u=extreme" -> "extreme"
      [] tok = "s=rest" -> "rest"
      [] tok = "s=" -> ""
      [] tok = "l=[a]" -> <<"a">>
      [] tok = "l=[1]" -> <<1>>

IsListOfStr(tok) == tok = "l=[a]"

IsStr(tok) == tok \in {"u=low", "u=extreme", "s=rest", "s="}

Absent == "<absent>"

\* re.search(r"\{.*\}", text, flags=re.DOTALL): from the first "{" to the
\* last "}" after it; "" when there is none
extract_json(text) ==
    LET opens == {i \in 1..Len(text) : text[i] = LB}
        first == CHOOSE i \in opens : \A k \in opens : i <= k
        closes == {j \in 1..Len(text) : text[j] = RB /\ j > first}
        last == CHOOSE j \in closes : \A k \in closes : k <= j
    IN  IF opens = {} THEN <<>>
        ELSE IF closes = {} THEN <<>>
        ELSE SubSeq(text, first, last)

\* json.loads of a span that starts with "{" and ends with "}": the decoder
\* reads the members from the left; the first token that is no member ends
\* it with a JSONDecodeError, a member nested too deeply with a
\* RecursionError; a key given twice keeps its last value
json_loads(span) ==
    LET inner == SubSeq(span, 2, Len(span) - 1)
        bad == {k \in 1..Len(inner) : inner[k] \notin MemberTokens}
        firstBad == CHOOSE k \in bad : \A m \in bad : k <= m
        Get(key) ==
            LET at == {k \in 1..Len(inner) : KeyOf(inner[k]) = key}
            IN  IF at = {} THEN Absent
                ELSE inner[CHOOSE k \in at : \A m \in at : m <= k]
    IN  IF bad = {}
        THEN [status |-> "ok", at |-> 0,
              data |-> [urgency_level |-> Get("urgency_level"),
                        summary |-> Get("summary"),
                        self_care |-> Get("self_care")]]
        ELSE [status |-> IF inner[firstBad] = DeepMember THEN "RecursionError"
                         ELSE "JSONDecodeError",
              at |-> firstBad,
              data |-> [urgency_level |-> Absent, summary |-> Absent, self_care |-> Absent]]

\* Literal["none", "low", "medium", "high"]
UrgencyLevels == {"none", "low", "medium", "high"}

\* urgency_level typed str instead of the Literal
ValidationErrors_any_urgency(data) ==
    {f \in {"urgency_level"} : data.urgency_level = Absent}
    \cup {f \in {"summary"} : data.summary = Absent \/ ~IsStr(data.summary)}
    \cup {f \in {"self_care"} : data.self_care # Absent /\ ~IsListOfStr(data.self_care)}

\* the fields of ConsultationOutput that the decoded object fails
ValidationErrors(data) ==
    {f \in {"urgency_level"} :
        \/ data.urgency_level = Absent
        \/ ValueOf(data.urgency_level) \notin UrgencyLevels}
    \cup {f \in {"summary"} : data.summary = Absent \/ ~IsStr(data.summary)}
    \cup {f \in {"self_care"} : data.self_care # Absent /\ ~IsListOfStr(data.self_care)}

\* ConsultationOutput.model_validate(data), for data without errors
ConsultationOutput(data) ==
    [urgency_level |-> ValueOf(data.urgency_level),
     possible_conditions |-> <<>>,
     self_care |-> IF data.self_care = Absent THEN <<>> ELSE ValueOf(data.self_care),
     see_doctor_if |-> <<>>,
     emergency_now_if |-> <<>>,
     clarifying_questions |-> <<>>,
     summary |-> ValueOf(data.summary)]

\* the fields in the order of the class, for the validator's explanation
FieldOrder == <<"urgency_level", "self_care", "summary">>

\* (parsed, error_message), or the exception that leaves the function;
\* parsed is <<>> for None and <<object>> otherwise, a message is the
\* sequence of its parts and "" is <<>>
parse_consultation_output(raw_text) ==
    LET json_str == extract_json(raw_text)
        loaded == json_loads(json_str)
        errors == ValidationErrors(loaded.data)
    IN  IF json_str = <<>>
        THEN [raised |-> FALSE, parsed |-> <<>>,
              err |-> <<"No JSON object found in consultation output.">>]
        ELSE IF loaded.status = "JSONDecodeError"
        THEN [raised |-> FALSE, parsed |-> <<>>,
              err |-> <<"Invalid JSON: ", ToString(loaded.at)>>]
        ELSE IF loaded.status = "RecursionError"
        THEN [raised |-> TRUE, parsed |-> <<>>, err |-> <<>>]
        ELSE IF errors # {}
        THEN [raised |-> FALSE, parsed |-> <<>>,
              err |-> <<"Schema validation failed: ">>
                      \o SelectSeq(FieldOrder, LAMBDA f : f \in errors)]
        ELSE [raised |-> FALSE, parsed |-> <<ConsultationOutput(loaded.data)>>, err |-> <<>>]

(***************************************************************************)
(* The pure functions, each applied to one input                           *)
(***************************************************************************)
\* the age strings the inputs are drawn from
AgeInputs == {<<>>, <<"1">>, <<"2">>, <<"6", "4">>, <<"6", "5">>, <<"7", "0", "y">>,
              <<"y">>, <<"-", "1">>, <<"0", "3", "0">>}

\* the extra details the inputs are drawn from
ExtraInputs == {NoneVal, <<>>, <<"rash">>, <<WS, "breathing">>, <<"Pain", WS>>, <<"hives">>}

GateInputs ==
    [symptoms : SeqsUpTo(Vocabulary \cup {WS}, MaxSymLen) \cup {NoneVal},
     age : AgeInputs \cup {NoneVal},
     extra : ExtraInputs]

TextTokens == {LB, RB, DeepMember} \cup ProseTokens \cup MemberTokens

Pending == [level |-> "pending", flags |-> <<>>, high_risk_age |-> FALSE]

ParsePending == [raised |-> FALSE, parsed |-> <<>>, err |-> <<"pending">>]

Requests == 1..NumReq

NoInput == [symptoms |-> <<>>, age |-> <<>>, duration |-> <<>>, extra |-> <<>>]

NoOutput == [chat |-> <<>>, alert |-> <<>>, final |-> <<"pending">>, raw_log |-> <<>>]

\* parse_consultation_output is not called yet
NotHanded == <<"<not called>">>

\* no request is made
ReqIdle ==
    /\ inp = [r \in Requests |-> NoInput]
    /\ pc = [r \in Requests |-> "idle"]
    /\ rf = [r \in Requests |-> Pending]
    /\ mgr = [r \in Requests |-> 0]
    /\ chats = [c \in Requests |-> <<>>]
    /\ nextId = 1
    /\ calls = [r \in Requests |-> 0]
    /\ out = [r \in Requests |-> NoOutput]
    /\ said = [r \in Requests |-> <<>>]
    /\ handed = [r \in Requests |-> NotHanded]

PureIdle ==
    /\ gIn = [symptoms |-> <<>>, age |-> <<>>, extra |-> <<>>]
    /\ gOut = Pending
    /\ pIn = <<>>
    /\ pOut = ParsePending

GateInit ==
    /\ gIn \in GateInputs
    /\ gOut = Pending
    /\ pIn = <<>>
    /\ pOut = ParsePending
    /\ ReqIdle

Assess ==
    /\ gOut = Pending
    /\ gOut' = detect_red_flags(gIn.symptoms, gIn.age, gIn.extra)
    /\ UNCHANGED <<gIn, pIn, pOut>>
    /\ UNCHANGED reqVars

GateNext == Assess

SpecGate == GateInit /\ [][GateNext]_vars

ParseInit ==
    /\ \E n \in 0..MaxTextLen : pIn \in [1..n -> TextTokens]
    /\ pOut = ParsePending
    /\ gIn = [symptoms |-> <<>>, age |-> <<>>, extra |-> <<>>]
    /\ gOut = Pending
    /\ ReqIdle

Recover ==
    /\ pOut = ParsePending
    /\ pOut' = parse_consultation_output(pIn)
    /\ UNCHANGED <<gIn, gOut, pIn>>
    /\ UNCHANGED reqVars

ParseNext == Recover

SpecParse == ParseInit /\ [][ParseNext]_vars

(***************************************************************************)
(* build_agents_and_manager and the group chat it configures               *)
(***************************************************************************)
MAX_ROUND == 5

\* GroupChat(agents=[diagnosis_agent, pharmacy_agent, consultation_agent], ...)
agents == <<"diagnosis", "pharmacy", "consultation">>

\* the rotation restarting at the first agent after every speaker but itself
next_agent_restart(last_speaker) ==
    IF last_speaker = agents[1] THEN agents[2] ELSE agents[1]

\* speaker_selection_method="round_robin": the agent after the last speaker
\* in `agents`, the first one after a speaker that is not in the group
next_agent(last_speaker) ==
    LET at == {i \in 1..Len(agents) : agents[i] = last_speaker}
        idx == IF at = {} THEN 0 ELSE CHOOSE i \in at : TRUE
    IN  agents[(idx % Len(agents)) + 1]

\* the manager is built without is_termination_msg: a message ends the chat
\* when its content is exactly "TERMINATE"
Marker == "TERMINATE"

\* a marker anywhere in the content
is_termination_msg_contains(content) == Marker \in Range(content)

is_termination_msg(content) == content = <<Marker>>

\* max_round=MAX_ROUND: the chat loop appends a message, then stops on a
\* termination message or in its last round
ChatOver(messages) ==
    \/ is_termination_msg(messages[Len(messages)].content)
    \/ Len(messages) >= MAX_ROUND

\* one manager kept at module level and handed to every request
build_agents_and_manager_shared(id) == [manager |-> 1, messages |-> chats[1]]

\* a fresh manager whose group chat starts with messages=[]
build_agents_and_manager(id) == [manager |-> id, messages |-> <<>>]

(***************************************************************************)
(* extract_chat_messages                                                   *)
(***************************************************************************)
label_map(name) ==
    CASE name = "diagnosis" -> "Diagnosis Agent"
      [] name = "pharmacy" -> "Pharmacy Agent"
      [] name = "consultation" -> "Consultation Agent"
      [] name = "patient" -> "Patient"
      [] name = "manager" -> "Manager"
      [] OTHER -> name

\* skips the messages without content; content = f"**{speaker}**\n\n{content}"
extract_chat_messages(messages) ==
    LET shown == SelectSeq(messages, LAMBDA m : m.content # <<>>)
    IN  [i \in 1..Len(shown) |->
            [role |-> "assistant",
             content |-> <<"**", label_map(shown[i].name), "**\n\n">> \o shown[i].content]]

(***************************************************************************)
(* run_consultation                                                        *)
(***************************************************************************)
\* no strip
Strip_missing(s) == s

\* str.strip()
Strip(s) ==
    LET solid == {i \in 1..Len(s) : s[i] # WS}
        lo == CHOOSE i \in solid : \A k \in solid : i <= k
        hi == CHOOSE i \in solid : \A k \in solid : k <= i
    IN  IF solid = {} THEN <<>> ELSE SubSeq(s, lo, hi)

\* sep.join(parts), for parts that are single pieces of text
RECURSIVE Join(_, _)
Join(parts, sep) ==
    IF parts = <<>> THEN <<>>
    ELSE IF Len(parts) = 1 THEN <<parts[1]>>
    ELSE <<parts[1], sep>> \o Join(Tail(parts), sep)

\* sep.join(texts), for texts that are sequences of pieces
RECURSIVE JoinTexts(_, _)
JoinTexts(texts, sep) ==
    IF texts = <<>> THEN <<>>
    ELSE IF Len(texts) = 1 THEN texts[1]
    ELSE texts[1] \o <<sep>> \o JoinTexts(Tail(texts), sep)

\* `x or default`
OrDefault(s, default) == IF s = NoneVal \/ s = <<>> THEN default ELSE s

\* `"Consultation Agent" in content`, for the pieces a text is made of
MentionsConsultation(piece) ==
    piece \in {"Consultation Agent", "as the Consultation Agent said"}

EmptyInputResult ==
    [chat |-> <<>>, alert |-> <<>>, final |-> <<"Please enter symptoms to begin.">>,
     raw_log |-> <<>>]

\* the gate halting on the wrong level
GateHalts_medium(r) == r.level = "medium"

\* if rf["level"] == "high"
GateHalts(r) == r.level = "high"

RedFlagAlert(r) ==
    <<"## Red-flag detected\n**Detected:** ">>
    \o (IF r.flags # <<>> THEN Join(r.flags, ", ") ELSE <<"Emergency warning signs">>)
    \o <<"\n\n**This may require urgent medical attention.**">>

HighRiskResult(r) ==
    [chat |-> <<>>, alert |-> RedFlagAlert(r),
     final |-> <<"Red-flag detected - seek urgent medical care.">>, raw_log |-> <<>>]

Banner(r) ==
    IF r.level = "medium" THEN <<"### Caution">>
    ELSE <<"### No emergency red-flags detected">>

\* the message of initiate_chat
Opening(symptoms, i) ==
    [name |-> "patient",
     content |-> <<"I need a medical triage-style suggestion (not a diagnosis). ", "Symptoms: ">>
                 \o symptoms \o <<" | Age: ">> \o OrDefault(i.age, <<"N/A">>)
                 \o <<" | Duration: ">> \o OrDefault(i.duration, <<"N/A">>)
                 \o <<" | Extra: ">> \o OrDefault(i.extra, <<"None">>) \o <<".">>]

\* for msg in reversed(chat_messages): if "Consultation Agent" in msg["content"]
consult_raw(chat_messages) ==
    LET found == {k \in 1..Len(chat_messages) :
                    \E p \in Range(chat_messages[k].content) : MentionsConsultation(p)}
    IN  IF found = {} THEN <<>>
        ELSE chat_messages[CHOOSE k \in found : \A m \in found : m <= k].content

FormatParsed(o) ==
    <<"Urgency: ", o.urgency_level, "\n\nSummary:\n", o.summary, "\n\nPossible conditions:\n- ">>
    \o Join(OrDefault(o.possible_conditions, <<"N/A">>), "\n- ")
    \o <<"\n\nSelf-care:\n- ">> \o Join(OrDefault(o.self_care, <<"N/A">>), "\n- ")
    \o <<"\n\nSee doctor if:\n- ">> \o Join(OrDefault(o.see_doctor_if, <<"N/A">>), "\n- ")
    \o <<"\n\nEmergency now if:\n- ">> \o Join(OrDefault(o.emergency_now_if, <<"N/A">>), "\n- ")
    \o <<"\n\nClarifying questions:\n- ">>
    \o Join(OrDefault(o.clarifying_questions, <<"None">>), "\n- ")

Fallback(err, raw) ==
    <<"Could not parse structured output.\nReason: ">> \o err \o <<"\n\nRaw output:\n">> \o raw

\* lines 438-465, for a parse that did not raise
Result(messages, alert, rec) ==
    LET chat_messages == extract_chat_messages(messages)
        raw == consult_raw(chat_messages)
    IN  [chat |-> chat_messages,
         alert |-> alert,
         final |-> IF rec.parsed # <<>> THEN FormatParsed(rec.parsed[1])
                   ELSE Fallback(rec.err, raw),
         raw_log |-> JoinTexts([k \in 1..Len(chat_messages) |-> chat_messages[k].content],
                               "\n\n")]

\* run_consultation up to the first completion-service call: the empty-input
\* return, the safety gate and its return, the construction of the agents
\* and the opening message
Submit(r, i) ==
    LET symptoms == Strip(OrEmpty(i.symptoms))
        gate == detect_red_flags(symptoms, OrEmpty(i.age), OrEmpty(i.extra))
        built == build_agents_and_manager(nextId)
        messages == Append(built.messages, Opening(symptoms, i))
    IN  /\ pc[r] = "idle"
        /\ inp' = [inp EXCEPT ![r] = i]
        /\ IF symptoms = <<>>
           THEN /\ pc' = [pc EXCEPT ![r] = "done"]
                /\ out' = [out EXCEPT ![r] = EmptyInputResult]
                /\ UNCHANGED <<rf, mgr, chats, nextId, said>>
           ELSE IF GateHalts(gate)
           THEN /\ pc' = [pc EXCEPT ![r] = "done"]
                /\ rf' = [rf EXCEPT ![r] = gate]
                /\ out' = [out EXCEPT ![r] = HighRiskResult(gate)]
                /\ UNCHANGED <<mgr, chats, nextId, said>>
           ELSE /\ rf' = [rf EXCEPT ![r] = gate]
                /\ mgr' = [mgr EXCEPT ![r] = built.manager]
                /\ chats' = [chats EXCEPT ![built.manager] = messages]
                /\ nextId' = nextId + 1
                /\ said' = [said EXCEPT ![r] = <<Opening(symptoms, i)>>]
                /\ pc' = [pc EXCEPT ![r] = IF ChatOver(messages) THEN "extract" ELSE "chat"]
                /\ UNCHANGED out
        /\ UNCHANGED <<calls, handed>>
        /\ UNCHANGED pureVars

\* one round of the chat: the next speaker in the rotation replies through
\* the completion service and its message is appended
Turn(r, reply) ==
    LET messages == chats[mgr[r]]
        speaker == next_agent(messages[Len(messages)].name)
        turn == [name |-> speaker, content |-> reply]
    IN  /\ pc[r] = "chat"
        /\ calls' = [calls EXCEPT ![r] = @ + 1]
        /\ chats' = [chats EXCEPT ![mgr[r]] = Append(messages, turn)]
        /\ said' = [said EXCEPT ![r] = Append(@, turn)]
        /\ pc' = [pc EXCEPT ![r] = IF ChatOver(Append(messages, turn)) THEN "extract"
                                   ELSE "chat"]
        /\ UNCHANGED <<inp, rf, mgr, nextId, out, handed>>
        /\ UNCHANGED pureVars

\* the completion service raises: the error leaves run_consultation
ServiceFails(r) ==
    /\ pc[r] = "chat"
    /\ calls' = [calls EXCEPT ![r] = @ + 1]
    /\ pc' = [pc EXCEPT ![r] = "failed"]
    /\ UNCHANGED <<inp, rf, mgr, chats, nextId, out, said, handed>>
    /\ UNCHANGED pureVars

\* after initiate_chat returns: lines 438-465
Finish(r) ==
    LET messages == chats[mgr[r]]
        rec == parse_consultation_output(consult_raw(extract_chat_messages(messages)))
    IN  /\ pc[r] = "extract"
        /\ IF rec.raised
           THEN /\ pc' = [pc EXCEPT ![r] = "failed"]
                /\ UNCHANGED out
           ELSE /\ pc' = [pc EXCEPT ![r] = "done"]
                /\ out' = [out EXCEPT ![r] = Result(messages, Banner(rf[r]), rec)]
        /\ handed' = [handed EXCEPT ![r] = consult_raw(extract_chat_messages(messages))]
        /\ UNCHANGED <<inp, rf, mgr, chats, nextId, calls, said>>
        /\ UNCHANGED pureVars

\* the arguments of one request
SymptomInputs == {NoneVal, <<>>, <<WS>>, <<WS, "rash", WS>>, <<"fever">>, <<"chest", "Pain">>}

RequestInputs ==
    [symptoms : SymptomInputs,
     age : {NoneVal, <<>>, <<"7", "0">>},
     duration : {NoneVal, <<"2 days">>},
     extra : {NoneVal, <<WS>>, <<"hives">>}]

\* what the completion service may answer
Replies ==
    {<<>>, <<Marker>>, <<"prose">>, <<"as the Consultation Agent said">>,
     <<LB, "u=low", "s=rest", RB>>, <<"prose", LB, "u=low", "s=rest", RB, Marker>>,
     <<LB, "u=extreme", "s=rest", RB>>, <<LB, "prose", RB>>, <<LB, DeepMember, RB>>}

Init == PureIdle /\ ReqIdle

\* one request
Next ==
    \/ \E i \in RequestInputs : Submit(1, i)
    \/ \E reply \in Replies : Turn(1, reply)
    \/ ServiceFails(1)
    \/ Finish(1)

Spec == Init /\ [][Next]_vars

\* concurrent requests
ConcInputs ==
    {[symptoms |-> <<WS>>, age |-> <<>>, duration |-> <<>>, extra |-> <<>>],
     [symptoms |-> <<"chest", "Pain">>, age |-> <<>>, duration |-> <<>>, extra |-> <<>>],
     [symptoms |-> <<"fever">>, age |-> <<"7", "0">>, duration |-> <<>>, extra |-> <<>>]}

ConcReplies == {<<Marker>>, <<LB, "u=low", "s=rest", RB>>}

ConcNext ==
    \E r \in Requests :
        \/ \E i \in ConcInputs : Submit(r, i)
        \/ \E reply \in ConcReplies : Turn(r, reply)
        \/ ServiceFails(r)
        \/ Finish(r)

SpecConc == Init /\ [][ConcNext]_vars

(***************************************************************************)
(* Properties                                                              *)
(***************************************************************************)
UrgentFinal == <<"Red-flag detected - seek urgent medical care.">>

\* the gate's verdict on the arguments of request r
GateOf(r) ==
    detect_red_flags(Strip(OrEmpty(inp[r].symptoms)), OrEmpty(inp[r].age), OrEmpty(inp[r].extra))

\* None, empty or whitespace only
Blank(s) == s = NoneVal \/ \A k \in 1..Len(s) : s[k] = WS

\* C1: a request whose safety-gate level is high never starts orchestration:
\* no agents are built and no completion-service call is made, and it returns
\* an empty chat, the red-flag alert, the urgent-care text and an empty raw
\* log; a request that made a completion-service call has level none or medium.
C1_HighRiskNeverOrchestrates ==
    \A r \in Requests :
        /\ calls[r] > 0 => rf[r].level \in {"none", "medium"}
        /\ (pc[r] # "idle" /\ ~Blank(inp[r].symptoms) /\ GateOf(r).level = "high") =>
              /\ pc[r] = "done"
              /\ mgr[r] = 0
              /\ calls[r] = 0
              /\ out[r].chat = <<>>
              /\ out[r].alert[1] = "## Red-flag detected\n**Detected:** "
              /\ out[r].final = UrgentFinal
              /\ out[r].raw_log = <<>>

C1_Witness ==
    \E r \in Requests :
        /\ pc[r] = "done"
        /\ rf[r].level = "high"
        /\ out[r].final = UrgentFinal
        /\ inp[r].age = <<"7", "0">>

\* C2: a request whose symptoms are None, empty or whitespace only returns
\* ([], "", "Please enter symptoms to begin.", "") at once: the safety gate is
\* not run, no agents are built and no completion-service call is made,
\* whatever the age, duration and extra arguments are.
C2_EmptyInput ==
    \A r \in Requests :
        (pc[r] # "idle" /\ Blank(inp[r].symptoms)) =>
            /\ pc[r] = "done"
            /\ out[r] = [chat |-> <<>>, alert |-> <<>>,
                         final |-> <<"Please enter symptoms to begin.">>, raw_log |-> <<>>]
            /\ rf[r] = Pending
            /\ mgr[r] = 0
            /\ calls[r] = 0

C2_Witness ==
    \E r \in Requests :
        /\ pc[r] = "done"
        /\ inp[r].symptoms = <<WS>>
        /\ inp[r].extra = <<"hives">>
        /\ inp[r].age = <<"7", "0">>

\* what the gate was asked
GateText == NormalizeText(gIn.symptoms, gIn.extra)

GateAnyCategory == \E k \in 1..Len(red_flags) : CategoryHit(GateText, red_flags[k])

GateAge == age_num(gIn.age)

GateAgeOutside == GateAge # NoAge /\ (GateAge < 2 \/ GateAge >= 65)

GateFeverOrBreathing == TextContains(GateText, "fever") \/ TextContains(GateText, "breathing")

\* C3: the level is high when a red-flag category matched the normalized
\* text, whatever the age; otherwise medium when the parsed age is below 2 or
\* at least 65 and the text contains "fever" or "breathing"; otherwise none;
\* and the level is high exactly when the flags are not empty.
C3_LevelPriority ==
    gOut # Pending =>
        /\ gOut.level = (IF GateAnyCategory THEN "high"
                         ELSE IF GateAgeOutside /\ GateFeverOrBreathing THEN "medium"
                         ELSE "none")
        /\ (gOut.level = "high") <=> (gOut.flags # <<>>)

C3_Witness ==
    /\ gOut.level = "high"
    /\ GateAgeOutside
    /\ GateFeverOrBreathing
    /\ Len(gOut.flags) = 2

\* C4 as stated: with no risk pattern and an age outside [2,65) the level is none.
C4_Original ==
    (gOut # Pending /\ ~GateAnyCategory /\ GateAgeOutside) => gOut.level = "none"

\* C4 amended: with no red-flag pattern the level is none when the age is
\* inside [2,65) or gives no age signal; with an age outside [2,65) it is
\* none only when the text contains neither "fever" nor "breathing", and
\* medium otherwise.
C4_NoPatternLevel ==
    (gOut # Pending /\ ~GateAnyCategory) =>
        /\ (GateAge = NoAge \/ (2 <= GateAge /\ GateAge < 65)) => gOut.level = "none"
        /\ (GateAgeOutside /\ ~GateFeverOrBreathing) => gOut.level = "none"
        /\ (GateAgeOutside /\ GateFeverOrBreathing) => gOut.level = "medium"

C4_Witness ==
    /\ gOut.level = "none"
    /\ ~GateAnyCategory
    /\ GateAge = 2
    /\ GateFeverOrBreathing

\* the declared order of the roles
RoleOrder == <<"diagnosis", "pharmacy", "consultation">>

\* C5: the transcript never holds more than MAX_ROUND turns; its first turn
\* is the patient's opening message and the turns after it are spoken by
\* diagnosis, pharmacy, consultation, diagnosis, ... in this order, whatever
\* the messages say.
C5_RoundRobinBounded ==
    \A r \in Requests :
        mgr[r] # 0 =>
            LET m == chats[mgr[r]]
            IN  /\ Len(m) <= MAX_ROUND
                /\ Len(m) >= 1
                /\ m[1].name = "patient"
                /\ \A k \in 2..Len(m) : m[k].name = RoleOrder[((k - 2) % 3) + 1]

C5_Witness ==
    \E r \in Requests :
        /\ mgr[r] # 0
        /\ Len(chats[mgr[r]]) = MAX_ROUND
        /\ chats[mgr[r]][MAX_ROUND].name = "diagnosis"
        /\ chats[mgr[r]][MAX_ROUND - 1].name = "consultation"

ContainsMarker(content) == Marker \in Range(content)

ChatEnded(r) == mgr[r] # 0 /\ pc[r] \in {"extract", "done"}

\* C6 as stated: a consultation turn that contains the completion marker
\* before round MAX_ROUND is the last turn, and a chat that ended without
\* one ended at MAX_ROUND turns.
C6_Original ==
    \A r \in Requests :
        mgr[r] # 0 =>
            LET m == chats[mgr[r]]
            IN  /\ \A k \in 1..(Len(m) - 1) :
                      ~(m[k].name = "consultation" /\ ContainsMarker(m[k].content))
                /\ ChatEnded(r) =>
                      \/ Len(m) = MAX_ROUND
                      \/ m[Len(m)].name = "consultation" /\ ContainsMarker(m[Len(m)].content)

\* C6 amended: the chat ends at the first turn, of any speaker, whose content
\* is exactly the marker TERMINATE, and otherwise when the transcript holds
\* MAX_ROUND turns (the opening message and MAX_ROUND - 1 role turns); a
\* marker inside a longer text ends nothing, and there is no other way for
\* the chat to end short of an error of the completion service.
C6_Halting ==
    \A r \in Requests :
        mgr[r] # 0 =>
            LET m == chats[mgr[r]]
            IN  /\ \A k \in 1..(Len(m) - 1) : m[k].content # <<Marker>>
                /\ ChatEnded(r) => (Len(m) = MAX_ROUND \/ m[Len(m)].content = <<Marker>>)
                /\ pc[r] = "chat" => (Len(m) < MAX_ROUND /\ m[Len(m)].content # <<Marker>>)

C6_Witness ==
    \E r \in Requests :
        /\ ChatEnded(r)
        /\ Len(chats[mgr[r]]) = 2
        /\ chats[mgr[r]][2] = [name |-> "diagnosis", content |-> <<Marker>>]

\* what the recovery was asked
HasBraceSpan == \E a, b \in 1..Len(pIn) : a < b /\ pIn[a] = LB /\ pIn[b] = RB

Decoded == json_loads(extract_json(pIn))

IsMessage(err, head) == Len(err) >= 1 /\ err[1] = head

\* the decoded payload satisfies the schema, as the claims state it
UrgencyOk(data) ==
    data.urgency_level # Absent /\ ValueOf(data.urgency_level) \in {"none", "low", "medium", "high"}

ListsOk(data) == data.self_care = Absent \/ data.self_care = "l=[a]"

SummaryIsText(data) == data.summary \in {"s=rest", "s="}

SummaryNonEmptyText(data) == data.summary = "s=rest"

\* C7: parse_consultation_output returns, without raising, (None, no-payload
\* diagnostic) for a text without a brace span; else (None, malformed-payload
\* diagnostic) when the span fails to decode; else (None, schema-invalid
\* diagnostic) when the decoded value violates the schema; else (object, "");
\* and the result is None exactly when the diagnostic is not empty.
C7_FourOutcomes ==
    pOut # ParsePending =>
        /\ ~pOut.raised
        /\ (pOut.parsed = <<>>) <=> (pOut.err # <<>>)
        /\ IF ~HasBraceSpan
           THEN pOut.parsed = <<>>
                /\ pOut.err = <<"No JSON object found in consultation output.">>
           ELSE IF Decoded.status # "ok"
           THEN pOut.parsed = <<>> /\ IsMessage(pOut.err, "Invalid JSON: ")
           ELSE IF ~(UrgencyOk(Decoded.data) /\ SummaryIsText(Decoded.data)
                     /\ ListsOk(Decoded.data))
           THEN pOut.parsed = <<>> /\ IsMessage(pOut.err, "Schema validation failed: ")
           ELSE pOut.parsed # <<>> /\ pOut.err = <<>>

PayloadDecoded == pOut # ParsePending /\ HasBraceSpan /\ Decoded.status = "ok"

\* C8 as stated: a decoded payload is accepted exactly when urgency_level is
\* one of the four levels, summary is non-empty text and the lists that are
\* present are lists of strings.
C8_Original ==
    PayloadDecoded =>
        ((pOut.parsed # <<>>) <=>
            (UrgencyOk(Decoded.data) /\ SummaryNonEmptyText(Decoded.data)
             /\ ListsOk(Decoded.data)))

\* C8 amended: a decoded payload is accepted exactly when urgency_level is
\* present and one of none, low, medium, high, summary is present and is
\* text (the empty text included) and every list-valued field that is
\* present is a list of strings; an absent list-valued field is an empty list
\* of the accepted result; every other payload is rejected with the
\* schema-invalid diagnostic.
C8_Validation ==
    PayloadDecoded =>
        /\ (pOut.parsed # <<>>) <=>
              (UrgencyOk(Decoded.data) /\ SummaryIsText(Decoded.data) /\ ListsOk(Decoded.data))
        /\ pOut.parsed # <<>> =>
              /\ pOut.parsed[1].urgency_level \in {"none", "low", "medium", "high"}
              /\ pOut.parsed[1].possible_conditions = <<>>
              /\ pOut.parsed[1].see_doctor_if = <<>>
              /\ pOut.parsed[1].emergency_now_if = <<>>
              /\ pOut.parsed[1].clarifying_questions = <<>>
              /\ Decoded.data.self_care = Absent => pOut.parsed[1].self_care = <<>>
        /\ pOut.parsed = <<>> => IsMessage(pOut.err, "Schema validation failed: ")

C8_Witness ==
    /\ PayloadDecoded
    /\ pOut.parsed # <<>>
    /\ pOut.parsed[1].summary = ""
    /\ pOut.parsed[1].self_care = <<>>
    /\ pIn[1] = "prose"

IsSuffix(t, s) == Len(t) <= Len(s) /\ SubSeq(s, Len(s) - Len(t) + 1, Len(s)) = t

\* the text of the last turn the consultation role spoke, "" without one
ConsultationText(m) ==
    LET at == {k \in 1..Len(m) : m[k].name = "consultation"}
    IN  IF at = {} THEN <<>> ELSE m[CHOOSE k \in at : \A j \in at : j <= k].content

RecoveryFailed(r) ==
    /\ pc[r] = "done"
    /\ mgr[r] # 0
    /\ out[r].final[1] = "Could not parse structured output.\nReason: "

\* C9: when the structured recovery fails, the request returns and its final
\* text gives the diagnostic and, after it, the text of the consultation
\* role verbatim.
C9_FallbackShowsConsultation ==
    \A r \in Requests :
        RecoveryFailed(r) =>
            /\ out[r].final[2] \in {"No JSON object found in consultation output.",
                                    "Invalid JSON: ", "Schema validation failed: "}
            /\ IsSuffix(ConsultationText(chats[mgr[r]]), out[r].final)

\* C10: every request that reaches orchestration has a manager of its own,
\* its transcript holds the turns of its own consultation and no others,
\* from the opening message on, and what it returns is made of these turns.
C10_Isolation ==
    /\ \A r1, r2 \in Requests : (r1 # r2 /\ mgr[r1] # 0) => mgr[r1] # mgr[r2]
    /\ \A r \in Requests :
          mgr[r] # 0 =>
              /\ chats[mgr[r]] = said[r]
              /\ chats[mgr[r]][1] = Opening(Strip(OrEmpty(inp[r].symptoms)), inp[r])
              /\ pc[r] = "done" =>
                    out[r] = Result(said[r], Banner(rf[r]),
                                    parse_consultation_output(
                                        consult_raw(extract_chat_messages(said[r]))))

C10_Witness ==
    \E r1, r2 \in Requests :
        /\ r1 # r2
        /\ pc[r1] = "done" /\ mgr[r1] # 0 /\ Len(chats[mgr[r1]]) = 2
        /\ pc[r2] = "chat" /\ Len(chats[mgr[r2]]) = 4

\* the formatted content of the last turn with content that the consultation
\* role spoke, "" without one
LastConsultationTurn(m) ==
    LET at == {k \in 1..Len(m) : m[k].name = "consultation" /\ m[k].content # <<>>}
    IN  IF at = {} THEN <<>>
        ELSE <<"**", "Consultation Agent", "**\n\n">>
             \o m[CHOOSE k \in at : \A j \in at : j <= k].content

\* C11: the text handed to parse_consultation_output is the content of the
\* most recent transcript turn spoken by the consultation role, or "" when
\* that role produced no turn with content; a turn of the patient, the
\* diagnosis or the pharmacy role is never the one selected.
C11_FinalTextIsConsultation ==
    \A r \in Requests :
        handed[r] # NotHanded => handed[r] = LastConsultationTurn(chats[mgr[r]])

====
